---- MODULE Spec2Model ----
(***************************************************************************)
(* The "Getting Started with cuDF" notebook, and the model-building cell   *)
(* of the "SHAP Values" notebook, as state machines.                       *)
(*                                                                         *)
(* A run executes the code cells top to bottom.  The state is the set of   *)
(* notebook variables (df, gdf, uniques, gdfs, matrices), the position of  *)
(* the run (pc), the cells that have completed (ran) and the exception     *)
(* that stopped the run, if any (error).  The CSV file on disk is the      *)
(* input; it is drawn from a bounded set of files in Init.                 *)
(*                                                                         *)
(* A data frame is modelled column by column, as the library stores it:    *)
(*   columns : the ordered column names                                    *)
(*   index   : the row labels, one per row                                 *)
(*   data    : for each column its own sequence of cells                   *)
(*   dtypes  : for each column its data type                               *)
(* A cell carries the line of the CSV file it was read from (src) next to  *)
(* its value (val), so that the alignment of the columns is something the  *)
(* model can get wrong.  Floating-point values are modelled by integers.   *)
(***************************************************************************)
EXTENDS Integers, Sequences, FiniteSets, TLC

VARIABLES file, pc, df, gdf, cat_iter, uniques, gdfs, matrices, ran, error,
          data, y, feature_names, X, train_X, val_X, train_y, val_y

\* the variables of the cuDF notebook
censusVars == <<df, gdf, cat_iter, uniques, gdfs, matrices>>

\* the variables of the model-building cell of the SHAP notebook
shapVars == <<data, y, feature_names, X, train_X, val_X, train_y, val_y>>

vars == <<file, pc, censusVars, ran, error, shapVars>>

(***************************************************************************)
(* Bounds of the model and the sets the input file is drawn from.          *)
(***************************************************************************)
\* most data rows in the CSV file
MaxRows == 3

\* the ADJUST column of a file, as <<value on the first row, value on the
\* other rows>>: the same factor on every row, as in the census file, or a
\* factor that changes after the first row
AdjustVals == { <<1, 1>>, <<2, 2>>, <<2, 1>> }

\* the categorical values a record can have
P1 == [STATEICP |-> 21, RACE |-> 1, SEX |-> 1, VETSTAT |-> 0]
P2 == [STATEICP |-> 49, RACE |-> 2, SEX |-> 2, VETSTAT |-> 1]
P3 == [STATEICP |-> 49, RACE |-> 3, SEX |-> 1, VETSTAT |-> 1]

\* the records a file is made of, as <<INCEARN, categorical values>>: negative,
\* zero and positive incomes, equal incomes with different categories, and
\* categories found on a negative income.  A file holds a record of the pool
\* at most once.
RecordPool ==
  { <<-1, P1>>, <<-1, P2>>, <<0, P1>>, <<0, P3>>, <<2, P2>>, <<2, P3>> }

\* every category value a file can hold
CatVals == {0, 1, 2, 3, 21, 49}

(***************************************************************************)
(* Names of the notebook.                                                  *)
(***************************************************************************)
\* the columns the slice cell keeps, in its order
column_names ==
  << "INCEARN", "PERWT", "ADJUST", "STATEICP", "ROOMS", "BEDROOMS",
     "PHONE", "VEHICLES", "RACE", "SEX", "AGE", "VETSTAT" >>

\* the categorical columns of the one-hot cell
cat_cols == {"STATEICP", "RACE", "SEX", "VETSTAT"}

\* the header of the CSV file: a column the notebook never selects, then
\* the selected ones
FileHeader == <<"YEAR">> \o column_names

\* the steps of a run, in the order of the notebook's cells
StepOrder ==
  << "load", "to_gdf", "select", "cast", "udf", "sort", "filter",
     "onehot", "castall", "split", "matrices" >>

(***************************************************************************)
(* Sequences.                                                              *)
(***************************************************************************)
Range(s) == { s[i] : i \in DOMAIN s }

RECURSIVE SortedSeq(_)
\* the elements of a finite set of integers in ascending order
SortedSeq(S) ==
  IF S = {} THEN <<>>
  ELSE LET m == CHOOSE x \in S : \A z \in S : x <= z
       IN  <<m>> \o SortedSeq(S \ {m})

\* the elements of s at the positions pos, in the order of pos
Gather(s, pos) == [ i \in 1..Len(pos) |-> s[pos[i]] ]

\* s without its elements equal to x
Without(s, x) == SelectSeq(s, LAMBDA e : e # x)

(***************************************************************************)
(* Data frames.                                                            *)
(***************************************************************************)
NoFrame == [columns |-> <<>>, index |-> <<>>, data |-> <<>>, dtypes |-> <<>>]

NRows(fr) == Len(fr.index)

\* Take that gathers the columns and leaves the index as it was
Take_DataOnly(fr, pos) ==
  [ columns |-> fr.columns,
    index   |-> fr.index,
    data    |-> [ c \in DOMAIN fr.data |-> Gather(fr.data[c], pos) ],
    dtypes  |-> fr.dtypes ]

\* the rows of fr at the positions pos, taken in every column and the index
Take(fr, pos) ==
  [ columns |-> fr.columns,
    index   |-> Gather(fr.index, pos),
    data    |-> [ c \in DOMAIN fr.data |-> Gather(fr.data[c], pos) ],
    dtypes  |-> fr.dtypes ]

\* the data type pandas infers for a column of the file
InferType(c) == IF c = "ADJUST" THEN "float64" ELSE "int64"

\* pd.read_csv: one column per header name, rows labelled 0..n-1
read_csv(f) ==
  [ columns |-> f.header,
    index   |-> [ i \in 1..Len(f.rows) |-> i - 1 ],
    data    |-> [ c \in Range(f.header) |->
                    [ i \in 1..Len(f.rows) |-> [src |-> i, val |-> f.rows[i][c]] ] ],
    dtypes  |-> [ c \in Range(f.header) |-> InferType(c) ] ]

\* cudf.DataFrame.from_pandas: every column copied to the device, in order
from_pandas(p) ==
  [ columns |-> p.columns,
    index   |-> p.index,
    data    |-> [ c \in Range(p.columns) |-> p.data[c] ],
    dtypes  |-> [ c \in Range(p.columns) |-> p.dtypes[c] ] ]

\* gdf.loc[:, names]: the named columns, in the order of names
LocColumns(fr, names) ==
  [ columns |-> names,
    index   |-> fr.index,
    data    |-> [ c \in Range(names) |-> fr.data[c] ],
    dtypes  |-> [ c \in Range(names) |-> fr.dtypes[c] ] ]

\* del fr[c], fr.drop_column(c): the frame without the column c
DropColumn(fr, c) ==
  [ columns |-> Without(fr.columns, c),
    index   |-> fr.index,
    data    |-> [ d \in DOMAIN fr.data \ {c} |-> fr.data[d] ],
    dtypes  |-> [ d \in DOMAIN fr.dtypes \ {c} |-> fr.dtypes[d] ] ]

\* fr[c] = col: an existing column is replaced in place, a new one is
\* appended after the last column
SetColumn(fr, c, col, t) ==
  [ columns |-> IF c \in Range(fr.columns) THEN fr.columns
                ELSE Append(fr.columns, c),
    index   |-> fr.index,
    data    |-> [ d \in DOMAIN fr.data \cup {c} |->
                    IF d = c THEN col ELSE fr.data[d] ],
    dtypes  |-> [ d \in DOMAIN fr.dtypes \cup {c} |->
                    IF d = c THEN t ELSE fr.dtypes[d] ] ]

(***************************************************************************)
(* int64 to float64.  A 64-bit integer is held in two limbs, as             *)
(* [neg, hi, lo] of magnitude hi * 2^30 + lo; a float64 that is a whole     *)
(* number is held the same way.                                              *)
(***************************************************************************)
Limb == 2^30

\* the two-limb form of a small integer
Wide(v) == [neg |-> v < 0, hi |-> 0, lo |-> IF v < 0 THEN -v ELSE v]

\* the small integer of a two-limb form below 2^30 in size
Narrow(w) == IF w.neg THEN -w.lo ELSE w.lo

RECURSIVE Spacing(_)
\* the distance between neighbouring float64 at a magnitude of high limb hi:
\* 1 below 2^53 (the significand has 53 bits), doubling with every further bit
Spacing(hi) == IF hi < 2^23 THEN 1 ELSE 2 * Spacing(hi \div 2)

\* w rounded to the nearest multiple of s, halfway cases to the even multiple
RoundTo(w, s) ==
  LET r    == w.lo % s
      down == w.lo - r
      up   == IF down + s = Limb
              THEN [neg |-> w.neg, hi |-> w.hi + 1, lo |-> 0]
              ELSE [neg |-> w.neg, hi |-> w.hi, lo |-> down + s]
  IN  IF r = 0 THEN w
      ELSE IF 2 * r < s \/ (2 * r = s /\ (down \div s) % 2 = 0)
      THEN [neg |-> w.neg, hi |-> w.hi, lo |-> down]
      ELSE up

\* RoundToDouble with a significand one bit short
RoundToDouble_ShortSignificand(w) == RoundTo(w, 2 * Spacing(w.hi))

\* astype(np.float64) of one int64: the nearest float64, halfway cases to even
RoundToDouble(w) == RoundTo(w, Spacing(w.hi))

\* astype(np.float64) of one value of the census run, a small integer
ToFloat64(v) == Narrow(RoundToDouble(Wide(v)))

\* astype(np.float64) of one value: a 64-bit integer in two limbs when wide,
\* a small integer otherwise
Float64Of(v, wide) == IF wide THEN RoundToDouble(v) ELSE ToFloat64(v)

\* fr[c] = fr[c].astype(np.float64), the values of fr being wide or not
AsType(fr, c, wide) ==
  SetColumn(fr, c,
            [ i \in 1..Len(fr.data[c]) |->
                [src |-> fr.data[c][i].src,
                 val |-> Float64Of(fr.data[c][i].val, wide)] ],
            "float64")

\* fr[c] = fr[c].astype(np.float64)
AsFloat64(fr, c) == AsType(fr, c, FALSE)

\* the positions of the rows of fr that carry the label l
LabelPos(fr, l) == { i \in 1..NRows(fr) : fr.index[i] = l }

\* adjust_incearn that adds the factor
adjust_incearn_Plus(adjust, incearn) == adjust + incearn

\* def adjust_incearn(incearn): return adjust * incearn
adjust_incearn(adjust, incearn) == adjust * incearn

\* fr[c].applymap(adjust_incearn): the function applied cell by cell
ApplyMap(col, adjust) ==
  [ i \in 1..Len(col) |->
      [src |-> col[i].src, val |-> adjust_incearn(adjust, col[i].val)] ]

\* the permutations of the n row positions
Perms(n) ==
  { p \in [1..n -> 1..n] : \A i, j \in 1..n : p[i] = p[j] => i = j }

\* SortOrders that sorts from the largest key down
SortOrders_Descending(fr, by) ==
  { p \in Perms(NRows(fr)) :
      \A i, j \in 1..NRows(fr) :
        i < j => fr.data[by][p[i]].val >= fr.data[by][p[j]].val }

\* the orders sort_values(by, ascending=True) may put the rows in: the by
\* column becomes non-decreasing; rows of equal key come in any order
SortOrders(fr, by) ==
  { p \in Perms(NRows(fr)) :
      \A i, j \in 1..NRows(fr) :
        i < j => fr.data[by][p[i]].val <= fr.data[by][p[j]].val }

\* sort_values that reorders the INCEARN column alone
sort_values_KeyOnly(fr, p) ==
  [ columns |-> fr.columns,
    index   |-> fr.index,
    data    |-> [ c \in DOMAIN fr.data |->
                    IF c = "INCEARN" THEN [ i \in 1..Len(p) |-> fr.data[c][p[i]] ]
                    ELSE fr.data[c] ],
    dtypes  |-> fr.dtypes ]

\* fr.sort_values(by): the rows in the order p, each with its label
sort_values(fr, p) == Take(fr, p)

\* fr.reset_index(): the rows relabelled 0..n-1 in their current order
reset_index(fr) ==
  [ columns |-> fr.columns,
    index   |-> [ i \in 1..NRows(fr) |-> i - 1 ],
    data    |-> fr.data,
    dtypes  |-> fr.dtypes ]

\* query that keeps only the rows with a positive INCEARN
query_Positive(fr) ==
  Take(fr, SortedSeq({ i \in 1..NRows(fr) : fr.data["INCEARN"][i].val > 0 }))

\* fr.query('INCEARN >= 0'): the rows that satisfy the predicate, in order,
\* each with its label
query(fr) ==
  Take(fr, SortedSeq({ i \in 1..NRows(fr) : fr.data["INCEARN"][i].val >= 0 }))

\* fr[c].unique_k(k=1000): the distinct values of the column, ascending
\* (a column of the model holds far fewer than 1000 distinct values)
unique_k(col) == SortedSeq({ col[i].val : i \in 1..Len(col) })

\* Cats that forgets to drop the first value
CatsKeepFirst(u) == u

\* cats = uniques[k][1:]  # drop first
Cats(u) == SubSeq(u, 2, Len(u))

\* the name one_hot_encoding gives the indicator of category cat: prefix_cat
IndName(prefix, cat) == prefix \o "_" \o ToString(cat)

\* Indicator that marks every value from cat upwards
IndicatorAtLeast(v, cat) == IF v >= cat THEN 1 ELSE 0

\* the indicator cell of one row: 1 where the row's value is cat, else 0
Indicator(v, cat) == IF v = cat THEN 1 ELSE 0

RECURSIVE one_hot_encoding(_, _, _)
\* fr.one_hot_encoding(k, prefix=k, cats=cats): one float64 indicator column
\* per element of cats, appended in the order of cats; column k is kept
one_hot_encoding(fr, k, cats) ==
  IF cats = <<>> THEN fr
  ELSE LET col == [ i \in 1..Len(fr.data[k]) |->
                      [ src |-> fr.data[k][i].src,
                        val |-> Indicator(fr.data[k][i].val, Head(cats)) ] ]
       IN  one_hot_encoding(SetColumn(fr, IndName(k, Head(cats)), col, "float64"),
                            k, Tail(cats))

\* for k in gdf.columns: gdf[k] = gdf[k].astype(np.float64)
AllFloat64(fr) ==
  [ columns |-> fr.columns,
    index   |-> fr.index,
    data    |-> [ c \in DOMAIN fr.data |-> AsFloat64(fr, c).data[c] ],
    dtypes  |-> [ c \in DOMAIN fr.dtypes |-> AsFloat64(fr, c).dtypes[c] ] ]

\* splitpoint = int(len(gdf) * fractions["train"]), with fractions["train"] = 0.8
Splitpoint(n) == (n * 8) \div 10

\* fr.loc[:l]: label slicing, the end label included: the rows labelled up
\* to and including l (the labels of the frame are ascending)
LocUpTo(fr, l) ==
  Take(fr, SortedSeq({ i \in 1..NRows(fr) : fr.index[i] <= l }))

\* fr.loc[l:]: the rows labelled l and above
LocFrom(fr, l) ==
  Take(fr, SortedSeq({ i \in 1..NRows(fr) : fr.index[i] >= l }))

\* fr.as_gpu_matrix(columns=cols): the values of the named columns, row by row
as_gpu_matrix(fr, cols) ==
  [ shape |-> <<NRows(fr), Len(cols)>>,
    rows  |-> [ i \in 1..NRows(fr) |->
                  [ j \in 1..Len(cols) |-> fr.data[cols[j]][i].val ] ] ]

(***************************************************************************)
(* The input.                                                              *)
(***************************************************************************)
NoFile == [exists |-> FALSE, header |-> <<>>, rows |-> <<>>]

\* one record of the census file
Record(inc, adj, p) ==
  [ YEAR |-> 2000, INCEARN |-> inc, PERWT |-> 600, ADJUST |-> adj,
    STATEICP |-> p.STATEICP, ROOMS |-> 5, BEDROOMS |-> 4, PHONE |-> 2,
    VEHICLES |-> 3, RACE |-> p.RACE, SEX |-> p.SEX, AGE |-> 40,
    VETSTAT |-> p.VETSTAT ]

\* the headers a file can have: the full one, or one that lacks AGE
Headers == { FileHeader, Without(FileHeader, "AGE") }

Files ==
  { NoFile } \cup
  { [exists |-> TRUE, header |-> h, rows |-> r] :
      h \in Headers,
      r \in UNION { UNION { { [ i \in 1..n |->
                                  Record(qs[i][1], IF i = 1 THEN adj[1] ELSE adj[2],
                                         qs[i][2]) ] :
                                qs \in { f \in [1..n -> RecordPool] :
                                           \A i, j \in 1..n : f[i] = f[j] => i = j } }
                            : adj \in AdjustVals }
                    : n \in 0..MaxRows } }

\* the 64-bit integer 2^53 + k, for 0 <= k < 2^30
Above2p53(k) == [neg |-> FALSE, hi |-> 2^23, lo |-> k]

\* INCEARN values of a file of 64-bit integers: 601 and -(2^53 + 1)
WideIncomes == { Wide(601), [Above2p53(1) EXCEPT !.neg = TRUE] }

\* PERWT values of such a file: 600, 2^53 - 1, 2^53, 2^53 + 1, 2^53 + 3
WideWeights ==
  { Wide(600), [neg |-> FALSE, hi |-> 2^23 - 1, lo |-> Limb - 1],
    Above2p53(0), Above2p53(1), Above2p53(3) }

\* one record of a file of 64-bit integers
WideRecord(inc, perwt) ==
  [ YEAR |-> 2000, INCEARN |-> inc, PERWT |-> perwt, ADJUST |-> 1,
    STATEICP |-> 21, ROOMS |-> 5, BEDROOMS |-> 4, PHONE |-> 2,
    VEHICLES |-> 3, RACE |-> 1, SEX |-> 1, AGE |-> 40, VETSTAT |-> 0 ]

WideFiles ==
  { NoFile } \cup
  { [exists |-> TRUE, header |-> h, rows |-> r] :
      h \in Headers,
      r \in UNION { [ 1..n -> { WideRecord(inc, w) :
                                  inc \in WideIncomes, w \in WideWeights } ]
                    : n \in 0..MaxRows } }

(***************************************************************************)
(* The run.                                                                *)
(***************************************************************************)
\* no variable of the SHAP notebook is assigned
ShapUnassigned ==
  /\ data = NoFrame
  /\ y = NoFrame
  /\ feature_names = <<>>
  /\ X = NoFrame
  /\ train_X = NoFrame
  /\ val_X = NoFrame
  /\ train_y = NoFrame
  /\ val_y = NoFrame

Init ==
  /\ file \in Files
  /\ pc = "load"
  /\ df = NoFrame
  /\ gdf = NoFrame
  /\ cat_iter = {}
  /\ uniques = <<>>
  /\ gdfs = <<>>
  /\ matrices = <<>>
  /\ ran = <<>>
  /\ error = "none"
  /\ ShapUnassigned

\* NextStep that goes back to the sort after the filter
NextStep_Resort(s) ==
  LET i == CHOOSE j \in DOMAIN StepOrder : StepOrder[j] = s
  IN  IF s = "filter" THEN "sort"
      ELSE IF i = Len(StepOrder) THEN "done" ELSE StepOrder[i + 1]

\* the step that follows step s in the notebook
NextStep(s) ==
  LET i == CHOOSE j \in DOMAIN StepOrder : StepOrder[j] = s
  IN  IF i = Len(StepOrder) THEN "done" ELSE StepOrder[i + 1]

\* Raise that records the error and lets the run go on at the same step
Raise_Swallow(e) ==
  /\ error' = e
  /\ UNCHANGED <<shapVars, file, pc, df, gdf, cat_iter, uniques, gdfs, matrices, ran>>

\* an exception leaves the cell: the run stops, nothing is assigned
Raise(e) ==
  /\ pc' = "failed"
  /\ error' = e
  /\ UNCHANGED <<shapVars, file, df, gdf, cat_iter, uniques, gdfs, matrices, ran>>

\* a step completes
Completed(s) ==
  /\ pc' = NextStep(s)
  /\ ran' = Append(ran, s)

\* df = pd.read_csv('../input/ipums_easy.csv')
Load ==
  /\ pc = "load"
  /\ IF file.exists
     THEN /\ df' = read_csv(file)
          /\ Completed("load")
          /\ UNCHANGED <<shapVars, file, gdf, cat_iter, uniques, gdfs, matrices, error>>
     ELSE Raise("FileNotFoundError")

\* gdf = cudf.DataFrame.from_pandas(df)
ToGdf ==
  /\ pc = "to_gdf"
  /\ gdf' = from_pandas(df)
  /\ Completed("to_gdf")
  /\ UNCHANGED <<shapVars, file, df, cat_iter, uniques, gdfs, matrices, error>>

\* gdf = gdf.loc[:, column_names]
Select ==
  /\ pc = "select"
  /\ IF Range(column_names) \subseteq Range(gdf.columns)
     THEN /\ gdf' = LocColumns(gdf, column_names)
          /\ Completed("select")
          /\ UNCHANGED <<shapVars, file, df, cat_iter, uniques, gdfs, matrices, error>>
     ELSE Raise("KeyError")

\* gdf['INCEARN'] = gdf['INCEARN'].astype(np.float64), then the same for
\* PERWT, the values of gdf being wide or not
CastTo(wide) ==
  /\ pc = "cast"
  /\ gdf' = AsType(AsType(gdf, "INCEARN", wide), "PERWT", wide)
  /\ Completed("cast")
  /\ UNCHANGED <<shapVars, file, df, cat_iter, uniques, gdfs, matrices, error>>

\* the cast cell of the census run
Cast == CastTo(FALSE)

\* the cast cell on a table whose INCEARN and PERWT hold 64-bit integers
CastWide == CastTo(TRUE)

\* adjust = gdf['ADJUST'][0]; gdf['INCEARN'] = gdf['INCEARN'].applymap(...);
\* gdf.drop_column('ADJUST')
Udf ==
  /\ pc = "udf"
  /\ IF LabelPos(gdf, 0) # {}
     THEN /\ LET i      == CHOOSE j \in LabelPos(gdf, 0) : TRUE
                 adjust == gdf.data["ADJUST"][i].val
                 mapped == SetColumn(gdf, "INCEARN",
                                     ApplyMap(gdf.data["INCEARN"], adjust),
                                     gdf.dtypes["INCEARN"])
             IN  gdf' = DropColumn(mapped, "ADJUST")
          /\ Completed("udf")
          /\ UNCHANGED <<shapVars, file, df, cat_iter, uniques, gdfs, matrices, error>>
     ELSE Raise("IndexError")

\* gdf = gdf.sort_values(by='INCEARN', ascending=True); gdf = gdf.reset_index()
Sort ==
  /\ pc = "sort"
  /\ \E p \in SortOrders(gdf, "INCEARN") :
       gdf' = reset_index(sort_values(gdf, p))
  /\ Completed("sort")
  /\ UNCHANGED <<shapVars, file, df, cat_iter, uniques, gdfs, matrices, error>>

\* gdf = gdf.query('INCEARN >= 0')
Filter ==
  /\ pc = "filter"
  /\ gdf' = query(gdf)
  /\ pc' = NextStep("filter")
  /\ ran' = Append(ran, "filter")
  /\ cat_iter' = cat_cols
  /\ UNCHANGED <<shapVars, file, df, uniques, gdfs, matrices, error>>

\* one iteration of  for k in cat_cols:  uniques[k] = gdf[k].unique_k(k=1000);
\* cats = uniques[k][1:]; gdf = gdf.one_hot_encoding(k, prefix=k, cats=cats);
\* del gdf[k].  A set is iterated in no particular order.
OneHot ==
  /\ pc = "onehot"
  /\ \E k \in cat_iter :
       LET u == unique_k(gdf.data[k])
       IN  /\ uniques' = [ c \in DOMAIN uniques \cup {k} |->
                             IF c = k THEN u ELSE uniques[c] ]
           /\ gdf' = DropColumn(one_hot_encoding(gdf, k, Cats(u)), k)
           /\ cat_iter' = cat_iter \ {k}
           /\ IF cat_iter \ {k} = {}
              THEN Completed("onehot")
              ELSE UNCHANGED <<pc, ran>>
  /\ UNCHANGED <<shapVars, file, df, gdfs, matrices, error>>

\* for k in gdf.columns: gdf[k] = gdf[k].astype(np.float64)
CastAll ==
  /\ pc = "castall"
  /\ gdf' = AllFloat64(gdf)
  /\ Completed("castall")
  /\ UNCHANGED <<shapVars, file, df, cat_iter, uniques, gdfs, matrices, error>>

\* gdfs = {"train": gdf.loc[:splitpoint], "valid": gdf.loc[splitpoint:]}
\* A slice bound that is no label of the frame is either placed by its order
\* among the labels or refused by the library with a KeyError.
Split ==
  /\ pc = "split"
  /\ LET splitpoint == Splitpoint(NRows(gdf))
     IN  \/ /\ gdfs' = [ train |-> LocUpTo(gdf, splitpoint),
                         valid |-> LocFrom(gdf, splitpoint) ]
            /\ Completed("split")
            /\ UNCHANGED <<shapVars, file, df, gdf, cat_iter, uniques, matrices, error>>
         \/ /\ LabelPos(gdf, splitpoint) = {}
            /\ Raise("KeyError")

\* matrices = {"train": {"x": gdfs["train"].as_gpu_matrix(columns=gdf.columns[1:]),
\*                       "y": gdfs["train"].as_gpu_matrix(columns=[gdf.columns[0]])},
\*             "valid": {...}}
\* A frame without rows is either turned into a matrix without rows or
\* refused by the library with a ValueError.
Matrices ==
  /\ pc = "matrices"
  /\ \/ /\ matrices' =
             [ s \in {"train", "valid"} |->
                 [ x |-> as_gpu_matrix(gdfs[s], Tail(gdf.columns)),
                   y |-> as_gpu_matrix(gdfs[s], <<Head(gdf.columns)>>) ] ]
        /\ Completed("matrices")
        /\ UNCHANGED <<shapVars, file, df, gdf, cat_iter, uniques, gdfs, error>>
     \/ /\ \E s \in {"train", "valid"} : NRows(gdfs[s]) = 0
        /\ Raise("ValueError")

Next ==
  \/ Load
  \/ ToGdf
  \/ Select
  \/ Cast
  \/ Udf
  \/ Sort
  \/ Filter
  \/ OneHot
  \/ CastAll
  \/ Split
  \/ Matrices

Spec == Init /\ [][Next]_vars

(***************************************************************************)
(* The run up to the cast cell, on files of 64-bit integers.                *)
(***************************************************************************)
InitWide ==
  /\ file \in WideFiles
  /\ pc = "load"
  /\ df = NoFrame
  /\ gdf = NoFrame
  /\ cat_iter = {}
  /\ uniques = <<>>
  /\ gdfs = <<>>
  /\ matrices = <<>>
  /\ ran = <<>>
  /\ error = "none"
  /\ ShapUnassigned

NextWide ==
  \/ Load
  \/ ToGdf
  \/ Select
  \/ CastWide

SpecWide == InitWide /\ [][NextWide]_vars

(***************************************************************************)
(* The model-building cell of the SHAP notebook.  The cell reads the match *)
(* statistics file and runs its statements in order; the values of the     *)
(* file are text, and pd.read_csv infers the type of every column from     *)
(* them.  A Series is a frame of one column named after the Series.        *)
(***************************************************************************)
\* the columns of the match statistics file: a text column, a count found
\* on every line, a count that can be missing, and the target
MatchHeader == <<"Team", "Goal Scored", "Own goals", "Man of the Match">>

\* the texts of the file that read as an integer, and the integer they read as
IntText == ("0" :> 0) @@ ("1" :> 1) @@ ("2" :> 2) @@ ("5" :> 5)

\* a missing value
NaN == "NaN"

\* one line of the file; "" is an empty field
MatchLine(goals, own, motm) ==
  ("Team" :> "Russia") @@ ("Goal Scored" :> goals) @@ ("Own goals" :> own)
    @@ ("Man of the Match" :> motm)

\* the lines a file is made of: with and without the award, with and without
\* an own goal, without the award field, without the goal count
MatchLines ==
  { MatchLine("5", "", "Yes"), MatchLine("0", "", "No"),
    MatchLine("1", "1", "No"), MatchLine("2", "1", "Yes"),
    MatchLine("0", "", ""), MatchLine("", "", "No") }

\* the files the cell can find: none, or a header, with or without the
\* target column, and up to MaxRows lines
MatchFiles ==
  { NoFile } \cup
  { [exists |-> TRUE, header |-> h, rows |-> r] :
      h \in { MatchHeader, Without(MatchHeader, "Man of the Match") },
      r \in UNION { [ 1..n -> MatchLines ] : n \in 0..MaxRows } }

\* the type pd.read_csv gives a column with the texts ts: integers when
\* every field reads as one, floats when some are missing, objects when a
\* field is no number or the file has no lines
InferDtype(ts) ==
  IF Len(ts) = 0 THEN "object"
  ELSE IF \A i \in 1..Len(ts) : ts[i] \in DOMAIN IntText THEN "int64"
  ELSE IF \A i \in 1..Len(ts) : ts[i] \in DOMAIN IntText \cup {""} THEN "float64"
  ELSE "object"

\* the value pd.read_csv reads from the text t in a column of type t_col
ParseField(t, t_col) ==
  IF t = "" THEN NaN ELSE IF t_col = "object" THEN t ELSE IntText[t]

\* pd.read_csv of the match statistics: one column per header name, rows
\* labelled 0..n-1, types inferred from the fields
pd_read_csv(f) ==
  LET texts(c) == [ i \in 1..Len(f.rows) |-> f.rows[i][c] ]
  IN  [ columns |-> f.header,
        index   |-> [ i \in 1..Len(f.rows) |-> i - 1 ],
        data    |-> [ c \in Range(f.header) |->
                        [ i \in 1..Len(f.rows) |->
                            [src |-> i,
                             val |-> ParseField(f.rows[i][c],
                                                InferDtype(texts(c)))] ] ],
        dtypes  |-> [ c \in Range(f.header) |-> InferDtype(texts(c)) ] ]

\* fr[c] == s: the boolean Series, named c, of the rows whose value is s
EqualsText(fr, c, s) ==
  [ columns |-> <<c>>,
    index   |-> fr.index,
    data    |-> [ d \in {c} |->
                    [ i \in 1..NRows(fr) |->
                        [src |-> fr.data[c][i].src,
                         val |-> fr.data[c][i].val = s] ] ],
    dtypes  |-> [ d \in {c} |-> "bool" ] ]

\* [i for i in fr.columns if fr[i].dtype in [np.int64, np.int64]]
Int64Columns(fr) == SelectSeq(fr.columns, LAMBDA c : fr.dtypes[c] = "int64")

\* the number of validation rows of n rows: the default test_size of 0.25,
\* rounded up
NTest(n) == (n + 3) \div 4

\* train_test_split that takes the rows of the target in ascending order
train_test_split_TargetInOrder(Xs, ys, p) ==
  LET n     == NRows(Xs)
      test  == [ i \in 1..NTest(n) |-> p[i] ]
      train == [ i \in 1..(n - NTest(n)) |-> p[NTest(n) + i] ]
  IN  [ train_X |-> Take(Xs, train), val_X |-> Take(Xs, test),
        train_y |-> Take(ys, SortedSeq(Range(train))),
        val_y   |-> Take(ys, SortedSeq(Range(test))) ]

\* train_test_split(Xs, ys) when the shuffle is p: the first NTest positions
\* of p are the validation rows, the others the training rows, and both
\* arrays are indexed with the same positions
train_test_split(Xs, ys, p) ==
  LET n     == NRows(Xs)
      test  == [ i \in 1..NTest(n) |-> p[i] ]
      train == [ i \in 1..(n - NTest(n)) |-> p[NTest(n) + i] ]
  IN  [ train_X |-> Take(Xs, train), val_X |-> Take(Xs, test),
        train_y |-> Take(ys, train), val_y |-> Take(ys, test) ]

\* the statements of the cell, in order
StatementOrder ==
  << "read_csv", "y", "feature_names", "X", "train_test_split", "fit" >>

\* the statement that follows statement s
NextStatement(s) ==
  LET i == CHOOSE j \in DOMAIN StatementOrder : StatementOrder[j] = s
  IN  IF i = Len(StatementOrder) THEN "done" ELSE StatementOrder[i + 1]

\* a statement completes
Executed(s) ==
  /\ pc' = NextStatement(s)
  /\ ran' = Append(ran, s)
  /\ UNCHANGED <<file, censusVars, error>>

InitShap ==
  /\ file \in MatchFiles
  /\ pc = "read_csv"
  /\ df = NoFrame
  /\ gdf = NoFrame
  /\ cat_iter = {}
  /\ uniques = <<>>
  /\ gdfs = <<>>
  /\ matrices = <<>>
  /\ ran = <<>>
  /\ error = "none"
  /\ ShapUnassigned

\* data = pd.read_csv('../input/fifa-2018-match-statistics/FIFA 2018 Statistics.csv')
ReadCsv ==
  /\ pc = "read_csv"
  /\ IF file.exists
     THEN /\ data' = pd_read_csv(file)
          /\ Executed("read_csv")
          /\ UNCHANGED <<y, feature_names, X, train_X, val_X, train_y, val_y>>
     ELSE Raise("FileNotFoundError")

\* y = (data['Man of the Match'] == "Yes")
Target ==
  /\ pc = "y"
  /\ IF "Man of the Match" \in Range(data.columns)
     THEN /\ y' = EqualsText(data, "Man of the Match", "Yes")
          /\ Executed("y")
          /\ UNCHANGED <<data, feature_names, X, train_X, val_X, train_y, val_y>>
     ELSE Raise("KeyError")

\* feature_names = [i for i in data.columns if data[i].dtype in [np.int64, np.int64]]
FeatureNames ==
  /\ pc = "feature_names"
  /\ feature_names' = Int64Columns(data)
  /\ Executed("feature_names")
  /\ UNCHANGED <<data, y, X, train_X, val_X, train_y, val_y>>

\* X = data[feature_names]
Features ==
  /\ pc = "X"
  /\ X' = LocColumns(data, feature_names)
  /\ Executed("X")
  /\ UNCHANGED <<data, y, feature_names, train_X, val_X, train_y, val_y>>

\* train_X, val_X, train_y, val_y = train_test_split(X, y, random_state=1):
\* the shuffle is the library's; a split that leaves no training row raises
\* in a library that checks for it
TrainTestSplit ==
  /\ pc = "train_test_split"
  /\ \/ \E p \in Perms(NRows(X)) :
          LET r == train_test_split(X, y, p)
          IN  /\ train_X' = r.train_X
              /\ val_X' = r.val_X
              /\ train_y' = r.train_y
              /\ val_y' = r.val_y
              /\ Executed("train_test_split")
              /\ UNCHANGED <<data, y, feature_names, X>>
     \/ /\ NRows(X) = NTest(NRows(X))
        /\ Raise("ValueError")

\* my_model = RandomForestClassifier(random_state=0).fit(train_X, train_y):
\* the fit needs a row and a feature
Fit ==
  /\ pc = "fit"
  /\ IF NRows(train_X) = 0 \/ train_X.columns = <<>>
     THEN Raise("ValueError")
     ELSE /\ Executed("fit")
          /\ UNCHANGED shapVars

NextShap ==
  \/ ReadCsv
  \/ Target
  \/ FeatureNames
  \/ Features
  \/ TrainTestSplit
  \/ Fit

SpecShap == InitShap /\ [][NextShap]_vars

(***************************************************************************)
(* What the properties below speak about.                                  *)
(***************************************************************************)
\* the frames of the current state
Frames ==
  {df, gdf} \cup { gdfs[s] : s \in DOMAIN gdfs }

\* the lines of the file the rows of fr were read from, in row order
Srcs(fr, c) == [ i \in 1..Len(fr.data[c]) |-> fr.data[c][i].src ]

\* the lines of the file the rows of the table were read from
RowSrcs(fr) == Range(Srcs(fr, "INCEARN"))

\* step s has completed
Ran(s) == s \in Range(ran)

\* the indicator columns of fr made for the categorical column k
IndCols(fr, k) ==
  { IndName(k, v) : v \in CatVals } \cap Range(fr.columns)

\* the distinct values the categorical column k has on the rows of fr
Distinct(fr, k) == { file.rows[l][k] : l \in RowSrcs(fr) }

\* the categorical columns the one-hot loop has encoded so far
Encoded == IF Ran("filter") THEN cat_cols \ cat_iter ELSE {}

(***************************************************************************)
(* C1: the split step gives gdfs["train"] exactly splitpoint =              *)
(* int(n * 0.8) rows and gdfs["valid"] exactly n - splitpoint rows, n the   *)
(* number of rows of the filtered table.                                    *)
(***************************************************************************)
SplitSizes ==
  Ran("split") =>
    /\ NRows(gdfs.train) = Splitpoint(NRows(gdf))
    /\ NRows(gdfs.valid) = NRows(gdf) - Splitpoint(NRows(gdf))

(***************************************************************************)
(* C2: after the split step every row of the filtered table is in exactly  *)
(* one of gdfs["train"] and gdfs["valid"], so the two sizes add up to the   *)
(* size of the table.                                                       *)
(***************************************************************************)
SplitPartition ==
  Ran("split") =>
    /\ \A l \in RowSrcs(gdf) :
         (l \in RowSrcs(gdfs.train)) # (l \in RowSrcs(gdfs.valid))
    /\ NRows(gdfs.train) + NRows(gdfs.valid) = NRows(gdf)

(***************************************************************************)
(* C3: the filter step removes exactly the rows with a negative INCEARN:   *)
(* every row left has INCEARN >= 0, every row that had INCEARN >= 0 is     *)
(* still there with every column value unchanged, no row is new, and the   *)
(* row count does not grow.                                                 *)
(***************************************************************************)
\* row i of frame a and row j of frame b agree in every column and the label
SameRow(a, i, b, j) ==
  /\ a.index[i] = b.index[j]
  /\ \A c \in Range(a.columns) : a.data[c][i] = b.data[c][j]

FilterRemovesNegatives ==
  [][ pc = "filter" =>
        /\ gdf'.columns = gdf.columns
        /\ \A j \in 1..NRows(gdf') : gdf'.data["INCEARN"][j].val >= 0
        /\ \A i \in 1..NRows(gdf) :
             gdf.data["INCEARN"][i].val >= 0 =>
               \E j \in 1..NRows(gdf') : SameRow(gdf, i, gdf', j)
        /\ \A j \in 1..NRows(gdf') :
             \E i \in 1..NRows(gdf) : SameRow(gdf, i, gdf', j)
        /\ NRows(gdf') <= NRows(gdf)
        /\ NRows(gdf') =
             Cardinality({ i \in 1..NRows(gdf) : gdf.data["INCEARN"][i].val >= 0 })
    ]_vars

\* the filter has just run, dropped a row and kept a row
FilterDroppedSome ==
  /\ pc = "onehot"
  /\ cat_iter = cat_cols
  /\ NRows(gdf) > 0
  /\ NRows(gdf) < Len(file.rows)

(***************************************************************************)
(* C4: in every state the cells found at one row position of a frame come  *)
(* from the same record of the file in every column, and a record that the *)
(* filter or the split keeps or drops is kept or dropped in every column   *)
(* alike; a cell of a column the run has not recomputed still holds the    *)
(* value of its record.                                                     *)
(***************************************************************************)
Aligned(fr) ==
  /\ fr.columns # <<>> =>
       LET first == Srcs(fr, Head(fr.columns))
       IN  \A c \in Range(fr.columns) : Srcs(fr, c) = first
  /\ \A c \in Range(fr.columns) \cap (Range(FileHeader) \ {"INCEARN"}) :
       \A i \in 1..Len(fr.data[c]) :
         fr.data[c][i].val = file.rows[fr.data[c][i].src][c]

RowAlignment == \A fr \in Frames : Aligned(fr)

\* the whole pipeline has run on a table that the sort reordered and the
\* filter shortened
AlignedAfterReorder ==
  /\ pc = "done"
  /\ NRows(gdf) < Len(file.rows)
  /\ \E i, j \in 1..NRows(gdf) :
       i < j /\ Srcs(gdf, "INCEARN")[i] > Srcs(gdf, "INCEARN")[j]
  /\ NRows(gdfs.train) > 0

(***************************************************************************)
(* C5: in every state all columns of every frame (df, gdf, gdfs["train"],  *)
(* gdfs["valid"]) have the same number of rows, the states between two     *)
(* iterations of the one-hot loop included.                                 *)
(***************************************************************************)
SameRowCount ==
  \A fr \in Frames :
    /\ DOMAIN fr.data = Range(fr.columns)
    /\ \A c \in Range(fr.columns) : Len(fr.data[c]) = NRows(fr)

\* between two iterations of the one-hot loop: indicator columns are there,
\* their source column is gone, other categorical columns are still to do
BetweenOneHotIterations ==
  /\ pc = "onehot"
  /\ cat_iter # {} /\ cat_iter # cat_cols
  /\ NRows(gdf) > 1
  /\ \E k \in cat_cols \ cat_iter : IndCols(gdf, k) # {}

AllButFirst(fr, k) ==
  { v \in Distinct(fr, k) : \E w \in Distinct(fr, k) : w < v }

IndicatorCells ==
  \A fr \in Frames \ {df} : \A k \in Encoded :
    /\ \A v \in CatVals :
         IndName(k, v) \in Range(fr.columns) =>
           \A i \in 1..NRows(fr) :
             LET cell == fr.data[IndName(k, v)][i]
             IN  cell.val = IF file.rows[cell.src][k] = v THEN 1 ELSE 0
    /\ \A i \in 1..NRows(fr) :
         Cardinality({ c \in IndCols(fr, k) : fr.data[c][i].val = 1 }) <= 1

\* an indicator column of the finished run that holds a 1 and a 0
IndicatorBothValues ==
  /\ pc = "done"
  /\ \E c \in IndCols(gdf, "RACE") : \E i, j \in 1..NRows(gdf) :
       gdf.data[c][i].val = 1 /\ gdf.data[c][j].val = 0

LinearOrder ==
  /\ Len(ran) <= Len(StepOrder)
  /\ \A i \in 1..Len(ran) : ran[i] = StepOrder[i]
  /\ pc # "failed" =>
       pc = IF Len(ran) = Len(StepOrder) THEN "done" ELSE StepOrder[Len(ran) + 1]
  /\ pc = "failed" => Len(ran) < Len(StepOrder)

\* a run that went through every step
AllStepsRan ==
  /\ pc = "done"
  /\ ran = StepOrder
  /\ NRows(gdf) > 0

(***************************************************************************)
(* C11: after the sort step the rows are in non-decreasing order of        *)
(* INCEARN, the rows are the rows of before the step, each as often as     *)
(* before, and the row labels are 0..n-1 in the sorted order.               *)
(***************************************************************************)
SortedAndRelabelled ==
  [][ pc = "sort" =>
        /\ gdf'.columns = gdf.columns
        /\ NRows(gdf') = NRows(gdf)
        /\ \A i, j \in 1..NRows(gdf') :
             i < j => gdf'.data["INCEARN"][i].val <= gdf'.data["INCEARN"][j].val
        /\ \E p \in Perms(NRows(gdf)) :
             \A i \in 1..NRows(gdf) : \A c \in Range(gdf.columns) :
               gdf'.data[c][i] = gdf.data[c][p[i]]
        /\ gdf'.index = [ i \in 1..NRows(gdf) |-> i - 1 ]
    ]_vars

\* the sort has just run and moved a row of the file to another position
SortMovedRows ==
  /\ pc = "filter"
  /\ \E i, j \in 1..NRows(gdf) :
       i < j /\ Srcs(gdf, "INCEARN")[i] > Srcs(gdf, "INCEARN")[j]
  /\ \E i, j \in 1..NRows(gdf) :
       gdf.data["INCEARN"][i].val < gdf.data["INCEARN"][j].val

(***************************************************************************)
(* C12: the UDF step replaces the INCEARN of every row by adjust * INCEARN, *)
(* adjust being the ADJUST of the first row; where ADJUST is the same on    *)
(* every row, that is the row's own ADJUST times its INCEARN.  After the    *)
(* step the column ADJUST is gone and every other column is as before.      *)
(***************************************************************************)
UdfAdjustsIncome ==
  [][ (pc = "udf" /\ pc' # "failed") =>
        LET adjust == gdf.data["ADJUST"][1].val
            n      == NRows(gdf)
        IN  /\ n > 0
            /\ gdf'.index = gdf.index
            /\ Len(gdf'.data["INCEARN"]) = n
            /\ \A i \in 1..n :
                 /\ gdf'.data["INCEARN"][i].src = gdf.data["INCEARN"][i].src
                 /\ gdf'.data["INCEARN"][i].val = adjust * gdf.data["INCEARN"][i].val
            /\ (\A i \in 1..n : gdf.data["ADJUST"][i].val = adjust) =>
                 \A i \in 1..n :
                   gdf'.data["INCEARN"][i].val =
                     gdf.data["ADJUST"][i].val * gdf.data["INCEARN"][i].val
            /\ gdf'.columns = Without(gdf.columns, "ADJUST")
            /\ DOMAIN gdf'.data = Range(gdf.columns) \ {"ADJUST"}
            /\ \A c \in Range(gdf.columns) \ {"ADJUST", "INCEARN"} :
                 /\ gdf'.data[c] = gdf.data[c]
                 /\ gdf'.dtypes[c] = gdf.dtypes[c]
    ]_vars

\* the UDF has just run on a table of several rows with one ADJUST value, 2,
\* and changed an income
UdfScaledIncome ==
  /\ pc = "sort"
  /\ NRows(gdf) > 1
  /\ \A l \in 1..Len(file.rows) : file.rows[l]["ADJUST"] = 2
  /\ \E i \in 1..NRows(gdf) :
       LET cell == gdf.data["INCEARN"][i]
       IN  cell.val # file.rows[cell.src]["INCEARN"]

(***************************************************************************)
(* C13 as stated: the cast step changes only the data type of INCEARN and  *)
(* PERWT, to float64: the columns and their order, the rows, the types of  *)
(* the other columns and the numeric value of every cell are as before.     *)
(***************************************************************************)
\* the cast step leaves everything but the values of INCEARN and PERWT
CastFrame ==
  /\ gdf'.columns = gdf.columns
  /\ gdf'.index = gdf.index
  /\ DOMAIN gdf'.data = DOMAIN gdf.data
  /\ \A c \in Range(gdf.columns) :
       /\ Len(gdf'.data[c]) = Len(gdf.data[c])
       /\ gdf'.dtypes[c] = IF c \in {"INCEARN", "PERWT"} THEN "float64"
                           ELSE gdf.dtypes[c]
       /\ c \notin {"INCEARN", "PERWT"} => gdf'.data[c] = gdf.data[c]
       /\ \A i \in 1..Len(gdf.data[c]) :
            gdf'.data[c][i].src = gdf.data[c][i].src

CastKeepsEveryValue ==
  [][ pc = "cast" =>
        /\ CastFrame
        /\ \A c \in {"INCEARN", "PERWT"} : \A i \in 1..NRows(gdf) :
             gdf'.data[c][i].val = gdf.data[c][i].val
    ]_vars

(***************************************************************************)
(* C13 as amended: the cast step changes only the data type of INCEARN and *)
(* PERWT, to float64: the columns and their order, the rows and the types  *)
(* of the other columns are as before, and so is the numeric value of      *)
(* every cell of at most 2^53 in magnitude (a larger 64-bit integer of     *)
(* INCEARN or PERWT is rounded to the nearest float64).                     *)
(***************************************************************************)
\* w is at most 2^53 in magnitude
AtMost2p53(w) == w.hi < 2^23 \/ (w.hi = 2^23 /\ w.lo = 0)

CastKeepsExactValues ==
  [][ pc = "cast" =>
        /\ CastFrame
        /\ \A c \in {"INCEARN", "PERWT"} : \A i \in 1..NRows(gdf) :
             AtMost2p53(gdf.data[c][i].val) =>
               gdf'.data[c][i].val = gdf.data[c][i].val
    ]_vars

\* the cast has just run on a table that holds 2^53 - 1 and 2^53 in PERWT
CastOfLargeWeights ==
  /\ pc = "udf"
  /\ gdf.dtypes["PERWT"] = "float64"
  /\ gdf.dtypes["STATEICP"] = "int64"
  /\ \E i, j \in 1..NRows(gdf) :
       /\ gdf.data["PERWT"][i].val = Above2p53(0)
       /\ gdf.data["PERWT"][j].val.hi = 2^23 - 1

\* the rows of the part Xs of X and of the part ys of y carry the same
\* labels in the same order, and each is the row of X, of y, of that label
Paired(Xs, ys) ==
  /\ ys.index = Xs.index
  /\ \A i \in 1..NRows(Xs) :
       LET j == CHOOSE k \in 1..NRows(X) : X.index[k] = Xs.index[i]
       IN  /\ \A c \in Range(Xs.columns) : Xs.data[c][i] = X.data[c][j]
           /\ ys.data["Man of the Match"][i] = y.data["Man of the Match"][j]

\* C14: in the model-building cell y is true on exactly the rows of data
\* whose 'Man of the Match' is "Yes"; X is made of exactly the int64 columns
\* of data, in their order and with their cells, and the target column is
\* not among them; after train_test_split the training and the validation
\* rows are disjoint and together are the rows of X, and the y of every row
\* is at the position of its X row.
TargetFeaturesAndSplit ==
  /\ Ran("y") =>
       /\ y.index = data.index
       /\ \A i \in 1..NRows(data) :
            LET c == data.data["Man of the Match"][i]
                t == y.data["Man of the Match"][i]
            IN  t.src = c.src /\ (t.val <=> c.val = "Yes")
  /\ Ran("X") =>
       /\ Range(X.columns) =
            { c \in Range(data.columns) : data.dtypes[c] = "int64" }
       /\ \A i, j \in 1..Len(X.columns) : X.columns[i] = X.columns[j] => i = j
       /\ "Man of the Match" \notin Range(X.columns)
       /\ X.index = data.index
       /\ \A c \in Range(X.columns) : X.data[c] = data.data[c]
  /\ Ran("train_test_split") =>
       /\ Range(train_X.index) \cap Range(val_X.index) = {}
       /\ Range(train_X.index) \cup Range(val_X.index) = Range(X.index)
       /\ NRows(train_X) + NRows(val_X) = NRows(X)
       /\ Paired(train_X, train_y)
       /\ Paired(val_X, val_y)

\* the cell has run to its end on a file whose shuffle put a later line
\* before an earlier one in the training rows, one with the award and one
\* without
SplitShuffledRows ==
  /\ pc = "done"
  /\ Ran("fit")
  /\ X.columns = <<"Goal Scored", "Own goals">>
  /\ NRows(train_X) = 2
  /\ NRows(val_X) = 1
  /\ train_X.index[1] > train_X.index[2]
  /\ train_y.data["Man of the Match"][1].val
  /\ ~ train_y.data["Man of the Match"][2].val

====
